---- MODULE Spec2Model ----
(***************************************************************************)
(* Model of the listing data-access layer of propertypro                   *)
(* (src/src/services/analyticsService.ts, class ListingService, and the    *)
(* record types of src/unnamed/part_000).                                  *)
(*                                                                         *)
(* The record store (the relations listings and property_media) is the     *)
(* shared state.  Every public method of the service is an async function: *)
(* between two awaits its code runs without interruption, so each backend  *)
(* round trip is one atomic step and calls of different callers interleave *)
(* at the awaits.  A backend request either takes effect ("ok"), reports   *)
(* an error in its result ("error") or rejects ("throw").                  *)
(***************************************************************************)
EXTENDS Integers, Sequences, FiniteSets, TLC

VARIABLES
    listings,   \* relation listings: id -> row, for the ids that are stored
    media,      \* relation property_media: listing_id -> rows, insertion order
    nextId,     \* the next id the backend generates for an inserted listing
    pc,         \* per caller: the await the running call is suspended at
    op,         \* per caller: the method of the running / last call
    arg,        \* per caller: the arguments the running call still needs
    ret,        \* per caller: the value the last call returned
    calls,      \* per caller: the backend requests the running / last call issued
    premium,    \* relation premium_listings: a set of rows
    profiles,   \* relation user_profiles: a set of rows
    now         \* the clock that new Date() reads

vars == <<listings, media, nextId, pc, op, arg, ret, calls, premium, profiles, now>>

\* what no method of the service writes
external == <<premium, profiles, now>>

----------------------------------------------------------------------------
(* Bounds of the model *)

MaxListings == 3      \* listings the store of a query holds
MaxMediaRows == 3     \* property_media rows one listing can hold
MaxCount == 2         \* cap of the views / inquiries counters
MaxTime == 2          \* the latest time the clock reaches

Procs == {"A", "B"}   \* the callers of the service
ListingIds == 1..MaxListings
Users == {"u1", "u2"}
Null == "NULL"

(* Outcomes of one backend round trip. *)
Outcomes == {"ok", "error", "throw"}

----------------------------------------------------------------------------
(* Types of src/unnamed/part_000 *)

\* Listing.status
ListingStatus == {"active", "draft", "inactive", "pending", "rejected", "rented", "sold"}

\* UserListing.status
UserListingStatus == {"active", "inactive", "expired", "pending"}

Urls == {"https:a", "data:b"}
DataUrls == {"data:b"}

\* ListingFormData, the fields the service reads
FormData(images) ==
    [images |-> images,
     price |-> 500, priceUnit |-> "juta", propertyType |-> "rumah", purpose |-> "jual",
     bedrooms |-> 0, bathrooms |-> 2,
     province |-> "p1", city |-> "", district |-> ""]

\* ListingFilters; an absent filter is "", null (the empty set) or 0
NoFilters ==
    [status |-> "", type |-> "", purpose |-> "", priceRange |-> {},
     bedrooms |-> {}, bathrooms |-> {},
     location |-> [province |-> "", city |-> "", district |-> ""],
     sortBy |-> ""]

(* What the callers of one specification ask for: the listing ids, the forms,
   the status strings and the user ids they pass, and the queries they make;
   and how the per-row lookups that follow a list query can end. *)
Inputs(ids, imageLists, statuses, users) ==
    [ids |-> ids, forms |-> {FormData(i) : i \in imageLists},
     statuses |-> statuses, users |-> users,
     filters |-> {NoFilters}, pages |-> {1}, pageSizes |-> {1},
     lookups |-> Outcomes, dateRanges |-> {"30d"}, topLevel |-> {"ok", "throw"}]

\* a caller passes the id of a listing the backend has handed out; the listing
\* may have been deleted since
KnownIds(in) == {i \in in.ids : i < nextId}

----------------------------------------------------------------------------
(* Values a method returns *)

Value(kind, id) == [kind |-> kind, id |-> id, data |-> <<>>, count |-> 0]
RetNone == Value("none", 0)
RetNull == Value("null", 0)
RetVoid == Value("void", 0)
RetTrue == Value("true", 0)
RetFalse == Value("false", 0)
RetId(i) == Value("id", i)

\* what a running call keeps across its awaits: the listing id, the images of
\* the form, and for the read methods the query and the rows fetched so far
Arg(id, images, q) == [id |-> id, images |-> images, q |-> q]
NoArg == Arg(0, <<>>, <<>>)

\* one backend request of a call: relation, verb, outcome, and whether it
\* changed the stored rows
Request(rel, verb, out, hit) == [rel |-> rel, verb |-> verb, out |-> out, hit |-> hit]

----------------------------------------------------------------------------
(* Private helpers of ListingService *)

\* x || null for a number: 0 is falsy
NumOrNull(n) == IF n = 0 THEN {} ELSE {n}

\* x || null for a string: "" is falsy
StrOrNull(s) == IF s = "" THEN Null ELSE s

prepareDraftData(formData, userId) ==
    [user_id |-> userId,
     price |-> formData.price,
     price_unit |-> formData.priceUnit,
     property_type |-> formData.propertyType,
     purpose |-> formData.purpose,
     bedrooms |-> NumOrNull(formData.bedrooms),
     bathrooms |-> NumOrNull(formData.bathrooms),
     province_id |-> StrOrNull(formData.province),
     city_id |-> StrOrNull(formData.city),
     district_id |-> StrOrNull(formData.district),
     status |-> "draft",
     views |-> 0,
     inquiries |-> 0,
     is_promoted |-> FALSE]

prepareListingData(formData, userId) ==
    [user_id |-> userId,
     price |-> formData.price,
     price_unit |-> formData.priceUnit,
     property_type |-> formData.propertyType,
     purpose |-> formData.purpose,
     bedrooms |-> NumOrNull(formData.bedrooms),
     bathrooms |-> NumOrNull(formData.bathrooms),
     province_id |-> StrOrNull(formData.province),
     city_id |-> StrOrNull(formData.city),
     district_id |-> StrOrNull(formData.district),
     status |-> "pending",
     views |-> 0,
     inquiries |-> 0,
     is_promoted |-> FALSE]

\* the public url the storage gives an uploaded data url
PublicUrl(image) == "pub:b"

\* uploadImage: a plain url is returned as it is; a data url is uploaded and
\* its public url returned, or the data url itself when the upload fails
uploadImage(image) ==
    IF image \notin DataUrls THEN {image} ELSE {PublicUrl(image), image}

\* savePropertyMedia, lines 1238-1251: the records it builds, one per image,
\* for every way the uploads can end
AllPrimaryRecords(images) ==
    {[i \in 1..Len(images) |-> [media_url |-> images[i], is_primary |-> TRUE]]}

mediaRecords(images) ==
    {[i \in 1..Len(images) |-> [media_url |-> u[i], is_primary |-> (i = 1)]] :
        u \in {s \in [1..Len(images) -> Urls \cup {PublicUrl(x) : x \in DataUrls}] :
                  \A i \in 1..Len(images) : s[i] \in uploadImage(images[i])}}

----------------------------------------------------------------------------
(* The record store *)

\* the backend fills in created_at and updated_at when a listing is inserted;
\* the ids it generates grow, and created_at is given as the id
InsertedRow(listingData, id) == listingData @@ [created_at |-> id, updated_at |-> now]

\* update(patch).eq('id', id): the patch overwrites the fields it names of
\* the matching row; no matching row is not an error
UpdatedRows(id, patch) ==
    IF id \in DOMAIN listings
    THEN [listings EXCEPT ![id] = patch @@ @]
    ELSE listings

\* delete().eq('id', id) on listings
DeletedRows(id) == [i \in DOMAIN listings \ {id} |-> listings[i]]

\* delete().eq('listing_id', id) on property_media
DeletedMedia(id) == [media EXCEPT ![id] = <<>>]

\* property_media.listing_id references listings.id (line 1141): a media row
\* of a listing that is not stored is refused, and so is the delete of a
\* listing that still has media rows
MediaInsertAccepted(listingId, records) ==
    /\ listingId \in DOMAIN listings
    /\ Len(media[listingId]) + Len(records) <= MaxMediaRows

ListingDeleteAccepted(id) == media[id] = <<>>

----------------------------------------------------------------------------
(* Steps shared by the methods *)

\* the value each method's catch block returns
Catch(method) ==
    CASE method = "createListing" -> RetNull
      [] method = "updateListing" -> RetFalse
      [] method = "updateListingStatus" -> RetFalse
      [] method = "deleteListing" -> RetFalse
      [] method = "incrementViewCount" -> RetVoid
      [] method = "incrementInquiryCount" -> RetVoid
      [] method = "getAllListings" -> Value("page", 0)
      [] method = "getUserListings" -> Value("list", 0)
      [] method = "getListingById" -> RetNull

\* a caller invokes a method: the requests of its first step go out
BeginAll(p, method, requests) ==
    /\ pc[p] = "idle"
    /\ op' = [op EXCEPT ![p] = method]
    /\ calls' = [calls EXCEPT ![p] = requests]
    /\ UNCHANGED external

Begin(p, method, request) == BeginAll(p, method, <<request>>)

\* a later request of the running call
Issue(p, request) ==
    /\ op' = op
    /\ calls' = [calls EXCEPT ![p] = Append(@, request)]
    /\ UNCHANGED external

\* the call suspends at its next await
Await(p, label, a) ==
    /\ pc' = [pc EXCEPT ![p] = label]
    /\ arg' = [arg EXCEPT ![p] = a]
    /\ ret' = ret

\* the call's promise resolves with value
Resolve(p, a, value) ==
    /\ pc' = [pc EXCEPT ![p] = "resolved"]
    /\ arg' = [arg EXCEPT ![p] = a]
    /\ ret' = [ret EXCEPT ![p] = value]

\* the caller takes the value and is free for its next call
Return(p) ==
    /\ pc[p] = "resolved"
    /\ pc' = [pc EXCEPT ![p] = "idle"]
    /\ op' = [op EXCEPT ![p] = "none"]
    /\ arg' = [arg EXCEPT ![p] = NoArg]
    /\ ret' = [ret EXCEPT ![p] = RetNone]
    /\ calls' = [calls EXCEPT ![p] = <<>>]
    /\ UNCHANGED <<listings, media, nextId>>
    /\ UNCHANGED external

\* savePropertyMedia: one insert of all the records; its own catch swallows
\* an error of the insert and a rejection alike
savePropertyMedia(p, listingId, images) ==
    \E records \in mediaRecords(images), out \in Outcomes :
        /\ out = "ok" => MediaInsertAccepted(listingId, records)
        /\ Issue(p, Request("property_media", "insert", out, out = "ok"))
        /\ media' = IF out = "ok"
                    THEN [media EXCEPT ![listingId] = @ \o records]
                    ELSE media

----------------------------------------------------------------------------
(* createListing *)

createListing_insert(p, in) ==
    /\ nextId \in in.ids
    /\ \E formData \in in.forms, userId \in in.users, out \in Outcomes :
        /\ Begin(p, "createListing", Request("listings", "insert", out, out = "ok"))
        /\ UNCHANGED media
        /\ IF out = "ok"
           THEN /\ listings' = listings @@
                       (nextId :> InsertedRow(prepareListingData(formData, userId), nextId))
                /\ nextId' = nextId + 1
                /\ IF Len(formData.images) > 0
                   THEN Await(p, "createListing_media",
                              Arg(nextId, formData.images, <<>>))
                   ELSE Resolve(p, Arg(nextId, formData.images, <<>>),
                                RetId(nextId))
           ELSE /\ UNCHANGED <<listings, nextId>>
                /\ Resolve(p, Arg(0, formData.images, <<>>),
                           Catch("createListing"))

createListing_media(p) ==
    /\ pc[p] = "createListing_media"
    /\ savePropertyMedia(p, arg[p].id, arg[p].images)
    /\ Resolve(p, arg[p], RetId(arg[p].id))
    /\ UNCHANGED <<listings, nextId>>

----------------------------------------------------------------------------
(* updateListing *)

updateListing_update(p, in) ==
    \E id \in KnownIds(in), formData \in in.forms, userId \in in.users, out \in Outcomes :
        /\ Begin(p, "updateListing",
                 Request("listings", "update", out,
                         out = "ok" /\ UpdatedRows(id, prepareListingData(formData, userId)) # listings))
        /\ UNCHANGED <<media, nextId>>
        /\ IF out = "ok"
           THEN /\ listings' = UpdatedRows(id, prepareListingData(formData, userId))
                /\ Await(p, "updateListing_delete", Arg(id, formData.images, <<>>))
           ELSE /\ UNCHANGED listings
                /\ Resolve(p, Arg(id, formData.images, <<>>),
                           Catch("updateListing"))

\* the result of the media delete is awaited but its error is not read
updateListing_delete(p) ==
    /\ pc[p] = "updateListing_delete"
    /\ UNCHANGED <<listings, nextId>>
    /\ \E out \in Outcomes :
        /\ Issue(p, Request("property_media", "delete", out,
                            out = "ok" /\ media[arg[p].id] # <<>>))
        /\ media' = IF out = "ok" THEN DeletedMedia(arg[p].id) ELSE media
        /\ IF out = "throw"
           THEN Resolve(p, arg[p], Catch("updateListing"))
           ELSE IF Len(arg[p].images) > 0
                THEN Await(p, "updateListing_media", arg[p])
                ELSE Resolve(p, arg[p], RetTrue)

updateListing_media(p) ==
    /\ pc[p] = "updateListing_media"
    /\ savePropertyMedia(p, arg[p].id, arg[p].images)
    /\ Resolve(p, arg[p], RetTrue)
    /\ UNCHANGED <<listings, nextId>>

----------------------------------------------------------------------------
(* updateListingStatus *)

\* lines 1121-1124
StatusPatch(status) == [status |-> status, updated_at |-> now]

updateListingStatus(p, in) ==
    \E id \in KnownIds(in), status \in in.statuses, out \in Outcomes :
        /\ Begin(p, "updateListingStatus",
                 Request("listings", "update", out,
                         out = "ok" /\ UpdatedRows(id, StatusPatch(status)) # listings))
        /\ UNCHANGED <<media, nextId>>
        /\ IF out = "ok"
           THEN /\ listings' = UpdatedRows(id, StatusPatch(status))
                /\ Resolve(p, Arg(id, <<>>, <<>>), RetTrue)
           ELSE /\ UNCHANGED listings
                /\ Resolve(p, Arg(id, <<>>, <<>>), Catch("updateListingStatus"))

----------------------------------------------------------------------------
(* deleteListing *)

\* if (mediaError) throw mediaError: the call goes on to the listing only
\* when the media delete neither reported an error nor rejected
MediaErrorIgnored(out) == out # "throw"

deleteListing_mediaDeleted(out) == out = "ok"

deleteListing_media(p, in) ==
    \E id \in KnownIds(in), out \in Outcomes :
        /\ Begin(p, "deleteListing",
                 Request("property_media", "delete", out, out = "ok" /\ media[id] # <<>>))
        /\ UNCHANGED <<listings, nextId>>
        /\ IF deleteListing_mediaDeleted(out)
           THEN /\ media' = IF out = "ok" THEN DeletedMedia(id) ELSE media
                /\ Await(p, "deleteListing_listing", Arg(id, <<>>, <<>>))
           ELSE /\ UNCHANGED media
                /\ Resolve(p, Arg(id, <<>>, <<>>), Catch("deleteListing"))

deleteListing_listing(p) ==
    /\ pc[p] = "deleteListing_listing"
    /\ UNCHANGED <<media, nextId>>
    /\ \E out \in Outcomes :
        /\ out = "ok" => ListingDeleteAccepted(arg[p].id)
        /\ Issue(p, Request("listings", "delete", out,
                            out = "ok" /\ arg[p].id \in DOMAIN listings))
        /\ IF out = "ok"
           THEN /\ listings' = DeletedRows(arg[p].id)
                /\ Resolve(p, arg[p], RetTrue)
           ELSE /\ UNCHANGED listings
                /\ Resolve(p, arg[p], Catch("deleteListing"))

----------------------------------------------------------------------------
(* incrementViewCount, incrementInquiryCount: one rpc each; the backend adds
   one to the counter in a single step.  The result is not read and a
   rejection is swallowed. *)

Incremented(id, field) ==
    IF id \in DOMAIN listings
    THEN [listings EXCEPT ![id] = (field :> (@[field] + 1)) @@ @]
    ELSE listings

increment(p, in, method, field) ==
    \E id \in KnownIds(in), out \in Outcomes :
        /\ id \in DOMAIN listings => listings[id][field] < MaxCount
        /\ Begin(p, method, Request("rpc", field, out, out = "ok" /\ id \in DOMAIN listings))
        /\ UNCHANGED <<media, nextId>>
        /\ listings' = IF out = "ok" THEN Incremented(id, field) ELSE listings
        /\ Resolve(p, Arg(id, <<>>, <<>>), RetVoid)

incrementOtherCounter(p, in) == increment(p, in, "incrementViewCount", "inquiries")

incrementViewCount(p, in) == increment(p, in, "incrementViewCount", "views")

incrementInquiryCount(p, in) == increment(p, in, "incrementInquiryCount", "inquiries")

----------------------------------------------------------------------------
(* The transform to the view model *)

\* the static location table of data/locations
provinces == {[id |-> "p1", name |-> "DKI Jakarta"]}
cities == {[id |-> "c1", name |-> "Jakarta Selatan"]}
districts == {[id |-> "d1", name |-> "Kebayoran Baru"]}

\* table.find(e => e.id === id)?.name || ''
LocationNameOrId(table, id) ==
    IF \E e \in table : e.id = id THEN (CHOOSE e \in table : e.id = id).name ELSE id

LocationName(table, id) ==
    IF \E e \in table : e.id = id THEN (CHOOSE e \in table : e.id = id).name ELSE ""

Placeholder == "https://images.pexels.com/photos/106399/pexels-photo-106399.jpeg"

\* userProfile is the set of rows .single() gave: one row, or none (null)
transformListingToProperty(id, listing, rows, userProfile) ==
    LET profile == CHOOSE r \in userProfile : TRUE
        images == [i \in 1..Len(rows) |-> rows[i].media_url]
    IN [id |-> id,
        price |-> listing.price,
        priceUnit |-> listing.price_unit,
        type |-> listing.property_type,
        purpose |-> listing.purpose,
        bedrooms |-> listing.bedrooms \ {0},
        bathrooms |-> listing.bathrooms \ {0},
        location |-> [province |-> LocationName(provinces, listing.province_id),
                      city |-> LocationName(cities, listing.city_id),
                      district |-> LocationName(districts, listing.district_id)],
        images |-> IF Len(images) > 0 THEN images ELSE <<Placeholder>>,
        agent |-> [id |-> IF userProfile # {} /\ profile.id # ""
                          THEN profile.id ELSE listing.user_id,
                   name |-> IF userProfile # {} /\ profile.full_name # ""
                            THEN profile.full_name ELSE "Unknown Agent"],
        createdAt |-> listing.created_at,
        isPromoted |-> listing.is_promoted,
        status |-> listing.status,
        views |-> listing.views,
        inquiries |-> listing.inquiries]

\* from('user_profiles').select('*').eq('id', userId).single(): data is the
\* row, or null when the request fails or no row matches
ProfileFetched(userId, out) ==
    IF out = "ok" THEN {r \in profiles : r.id = userId} ELSE {}

----------------------------------------------------------------------------
(* getAllListings *)

Min(a, b) == IF a < b THEN a ELSE b

\* the arrangements of a set of rows
Perms(S) ==
    {f \in [1..Cardinality(S) -> S] : \A i, j \in 1..Cardinality(S) : i # j => f[i] # f[j]}

\* lines 837-876: the filters that are applied, each only when supplied
Matches(row, filters) ==
    /\ (filters.status # "" /\ filters.status # "all") => row.status = filters.status
    /\ (filters.type # "" /\ filters.type # "all") => row.property_type = filters.type
    /\ (filters.purpose # "" /\ filters.purpose # "all") => row.purpose = filters.purpose
    /\ \A range \in filters.priceRange :
          /\ \A min \in range.min : row.price >= min
          /\ \A max \in range.max : row.price <= max
    /\ \A n \in filters.bedrooms \ {0} : \E b \in row.bedrooms : b >= n
    /\ \A n \in filters.bathrooms \ {0} : \E b \in row.bathrooms : b >= n
    /\ filters.location.province # "" => row.province_id = filters.location.province
    /\ filters.location.city # "" => row.city_id = filters.location.city
    /\ filters.location.district # "" => row.district_id = filters.location.district

\* lines 878-905: row a has to come before row b
BeforeAscending(a, b, sortBy) ==
    CASE sortBy = "oldest" -> a.created_at < b.created_at
      [] sortBy = "price_asc" -> a.price < b.price
      [] sortBy = "price_desc" -> a.price < b.price
      [] sortBy = "views" -> a.views < b.views
      [] sortBy = "premium" -> a.created_at > b.created_at
      [] OTHER -> a.created_at < b.created_at

Before(a, b, sortBy) ==
    CASE sortBy = "oldest" -> a.created_at < b.created_at
      [] sortBy = "price_asc" -> a.price < b.price
      [] sortBy = "price_desc" -> a.price > b.price
      [] sortBy = "views" -> a.views > b.views
      [] sortBy = "premium" ->
            \/ a.is_promoted /\ ~b.is_promoted
            \/ a.is_promoted = b.is_promoted /\ a.created_at > b.created_at
      [] OTHER -> a.created_at > b.created_at

\* the orders the backend can give the rows: rows the sort does not tell
\* apart come in any order
Orders(ids, sortBy) ==
    {o \in Perms(ids) :
        \A i, j \in 1..Len(o) : i < j => ~Before(listings[o[j]], listings[o[i]], sortBy)}

\* select('*, property_media(*)'): every listing, with or without media rows
JoinedLeft == DOMAIN listings

\* select('*, property_media!inner(*)'): the listings that have media rows
JoinedInner == {id \in DOMAIN listings : media[id] # <<>>}

\* lines 907-910
RangeFrom(page, pageSize) == (page - 1) * pageSize

RangeToExclusive(page, pageSize) == RangeFrom(page, pageSize) + pageSize

RangeTo(page, pageSize) == RangeFrom(page, pageSize) + pageSize - 1

\* range(from, to): the rows at the positions from..to, counted from 0
Range(rows, from, to) ==
    IF from + 1 > Len(rows) THEN <<>> ELSE SubSeq(rows, from + 1, Min(to + 1, Len(rows)))

Page(data, count) == [kind |-> "page", id |-> 0, data |-> data, count |-> count]

getAllListings(p, in) ==
    /\ pc[p] = "idle"
    /\ \E filters \in in.filters, page \in in.pages, pageSize \in in.pageSizes, out \in Outcomes :
           LET matched == {id \in JoinedInner : Matches(listings[id], filters)}
               a == Arg(0, <<>>, [filters |-> filters, page |-> page, pageSize |-> pageSize])
           IN /\ UNCHANGED <<listings, media, nextId>>
              /\ IF out # "ok"
                 THEN /\ Begin(p, "getAllListings", Request("listings", "select", out, FALSE))
                      /\ Resolve(p, a, Catch("getAllListings"))
                 ELSE \E order \in Orders(matched, filters.sortBy) :
                        LET data == Range(order, RangeFrom(page, pageSize),
                                          RangeTo(page, pageSize))
                        IN \E fetched \in [1..Len(data) -> in.lookups] :
                             /\ BeginAll(p, "getAllListings",
                                   <<Request("listings", "select", out, FALSE)>> \o
                                   [i \in 1..Len(data) |->
                                       Request("user_profiles", "select", fetched[i], FALSE)])
                             /\ IF \E i \in 1..Len(data) : fetched[i] = "throw"
                                THEN Resolve(p, a, Catch("getAllListings"))
                                ELSE Resolve(p, a, Page(
                                       [i \in 1..Len(data) |->
                                           transformListingToProperty(data[i], listings[data[i]],
                                               media[data[i]],
                                               ProfileFetched(listings[data[i]].user_id, fetched[i]))],
                                       Cardinality(matched)))

----------------------------------------------------------------------------
(* getUserListings *)

\* lines 993-1010
MapStatusKeepInactive(status) ==
    IF status \in {"active", "inactive"} THEN status
    ELSE IF status \in {"pending", "draft"} THEN "pending"
    ELSE IF status \in {"rejected", "rented", "sold"} THEN "inactive"
    ELSE "expired"

MapStatus(status) ==
    CASE status = "active" -> "active"
      [] status \in {"pending", "draft"} -> "pending"
      [] status \in {"rejected", "rented", "sold"} -> "inactive"
      [] OTHER -> "expired"

\* lines 1013-1019: .single() gives the row when exactly one matches
PremiumFetched(id, out) ==
    LET rows == {r \in premium : r.property_id = id /\ r.status = "active" /\ r.end_date > now}
    IN IF out = "ok" /\ Cardinality(rows) = 1 THEN rows ELSE {}

\* lines 988-991 and 1033
PrimaryImage(rows) ==
    LET primary == {i \in 1..Len(rows) : rows[i].is_primary}
        first == CHOOSE i \in primary : \A j \in primary : i <= j
        url == IF primary # {} /\ rows[first].media_url # "" THEN rows[first].media_url
               ELSE IF Len(rows) > 0 THEN rows[1].media_url ELSE ""
    IN IF url # "" THEN url ELSE Placeholder

UserListing(id, listing, rows, premiumData) ==
    [id |-> id,
     type |-> listing.property_type,
     purpose |-> listing.purpose,
     price |-> listing.price,
     priceUnit |-> listing.price_unit,
     status |-> MapStatus(listing.status),
     isPremium |-> premiumData # {},
     premiumExpiresAt |-> {r.end_date : r \in premiumData},
     views |-> listing.views,
     createdAt |-> listing.created_at,
     image |-> PrimaryImage(rows),
     location |-> [city |-> LocationName(cities, listing.city_id),
                   province |-> LocationName(provinces, listing.province_id)]]

List(data) == [kind |-> "list", id |-> 0, data |-> data, count |-> 0]

getUserListings(p, in) ==
    /\ pc[p] = "idle"
    /\ \E userId \in in.users, out \in Outcomes :
           LET owned == {id \in DOMAIN listings : listings[id].user_id = userId}
               a == Arg(0, <<>>, [userId |-> userId])
           IN /\ UNCHANGED <<listings, media, nextId>>
              /\ IF out # "ok"
                 THEN /\ Begin(p, "getUserListings", Request("listings", "select", out, FALSE))
                      /\ Resolve(p, a, Catch("getUserListings"))
                 ELSE \E data \in Orders(owned, "newest") :
                        \E fetched \in [1..Len(data) -> in.lookups] :
                             /\ BeginAll(p, "getUserListings",
                                   <<Request("listings", "select", out, FALSE)>> \o
                                   [i \in 1..Len(data) |->
                                       Request("premium_listings", "select", fetched[i], FALSE)])
                             /\ IF \E i \in 1..Len(data) : fetched[i] = "throw"
                                THEN Resolve(p, a, Catch("getUserListings"))
                                ELSE Resolve(p, a, List(
                                       [i \in 1..Len(data) |->
                                           UserListing(data[i], listings[data[i]], media[data[i]],
                                               PremiumFetched(data[i], fetched[i]))]))

----------------------------------------------------------------------------
(* getListingById *)

Property(property) == [kind |-> "property", id |-> 0, data |-> <<property>>, count |-> 0]

\* .single() reports an error when no row matches
getListingById_listing(p, in) ==
    \E id \in KnownIds(in), out \in Outcomes :
        /\ Begin(p, "getListingById", Request("listings", "select", out, FALSE))
        /\ UNCHANGED <<listings, media, nextId>>
        /\ IF out = "ok" /\ id \in DOMAIN listings
           THEN Await(p, "getListingById_media", Arg(id, <<>>, [listing |-> listings[id]]))
           ELSE Resolve(p, Arg(id, <<>>, <<>>), Catch("getListingById"))

\* order('is_primary', {ascending: false}): primary rows first
StoredOrder(rows) == {rows}

PrimaryFirst(rows) ==
    {[i \in 1..Len(rows) |-> rows[o[i]]] : o \in
        {f \in Perms(1..Len(rows)) :
            \A i, j \in 1..Len(rows) : i < j => ~(rows[f[j]].is_primary /\ ~rows[f[i]].is_primary)}}

getListingById_media(p) ==
    /\ pc[p] = "getListingById_media"
    /\ UNCHANGED <<listings, media, nextId>>
    /\ \E out \in Outcomes :
        /\ Issue(p, Request("property_media", "select", out, FALSE))
        /\ IF out = "throw"
           THEN Resolve(p, arg[p], Catch("getListingById"))
           ELSE \E rows \in (IF out = "ok" THEN PrimaryFirst(media[arg[p].id]) ELSE {<<>>}) :
                  Await(p, "getListingById_profile",
                        Arg(arg[p].id, <<>>, [listing |-> arg[p].q.listing, media |-> rows]))

getListingById_profile(p) ==
    /\ pc[p] = "getListingById_profile"
    /\ UNCHANGED <<listings, media, nextId>>
    /\ \E out \in Outcomes :
        /\ Issue(p, Request("user_profiles", "select", out, FALSE))
        /\ IF out = "throw"
           THEN Resolve(p, arg[p], Catch("getListingById"))
           ELSE Resolve(p, arg[p], Property(
                    transformListingToProperty(arg[p].id, arg[p].q.listing, arg[p].q.media,
                        ProfileFetched(arg[p].q.listing.user_id, out))))

----------------------------------------------------------------------------
(* Two concurrent callers working on one listing, from an empty store *)

ConcurrentInputs ==
    Inputs({1}, {<<>>, <<"https:a">>, <<"data:b", "https:a">>}, {"active", "archived"}, {"u1"})

Init ==
    /\ now = 1
    /\ listings = <<>>
    /\ media = [i \in ListingIds |-> <<>>]
    /\ nextId = 1
    /\ pc = [p \in Procs |-> "idle"]
    /\ op = [p \in Procs |-> "none"]
    /\ arg = [p \in Procs |-> NoArg]
    /\ ret = [p \in Procs |-> RetNone]
    /\ calls = [p \in Procs |-> <<>>]
    /\ premium = {}
    /\ profiles = {}

Next ==
    \E p \in Procs :
        \/ createListing_insert(p, ConcurrentInputs)
        \/ createListing_media(p)
        \/ updateListing_update(p, ConcurrentInputs)
        \/ updateListing_delete(p)
        \/ updateListing_media(p)
        \/ updateListingStatus(p, ConcurrentInputs)
        \/ deleteListing_media(p, ConcurrentInputs)
        \/ deleteListing_listing(p)
        \/ Return(p)

Spec == Init /\ [][Next]_vars

----------------------------------------------------------------------------
(* One caller using every method of the service, from a store that may
   already hold a promoted listing *)

SeedRow ==
    InsertedRow([prepareListingData(FormData(<<>>), "u1") EXCEPT
                    !.status = "active", !.is_promoted = TRUE], 1)

SeedMedia == [i \in ListingIds |->
                 IF i = 1 THEN <<[media_url |-> "https:a", is_primary |-> TRUE]>> ELSE <<>>]

PremiumRow(id, status, end) == [property_id |-> id, status |-> status, end_date |-> end]

PremiumSeeds ==
    {{}, {PremiumRow(1, "active", 2)}, {PremiumRow(1, "active", 1)},
     {PremiumRow(1, "active", 2), PremiumRow(1, "active", 3)}}

ProfileSeeds == {{}, {[id |-> "u1", full_name |-> "Agent One"]}}

ApiInputs ==
    [Inputs({1}, {<<>>, <<"https:a">>}, ListingStatus \cup {"archived"}, Users)
        EXCEPT !.filters = {NoFilters, [NoFilters EXCEPT !.status = "active"]},
               !.pages = {1, 2}]

InitApi ==
    /\ now = 1
    /\ \/ listings = <<>> /\ media = [i \in ListingIds |-> <<>>] /\ nextId = 1
       \/ listings = (1 :> SeedRow) /\ media = SeedMedia /\ nextId = 2
    /\ pc = [p \in Procs |-> "idle"]
    /\ op = [p \in Procs |-> "none"]
    /\ arg = [p \in Procs |-> NoArg]
    /\ ret = [p \in Procs |-> RetNone]
    /\ calls = [p \in Procs |-> <<>>]
    /\ premium \in PremiumSeeds
    /\ profiles \in ProfileSeeds

NextApi ==
    \/ getAllListings("A", ApiInputs)
    \/ getListingById_listing("A", ApiInputs)
    \/ getListingById_media("A")
    \/ getListingById_profile("A")
    \/ getUserListings("A", ApiInputs)
    \/ createListing_insert("A", ApiInputs)
    \/ createListing_media("A")
    \/ updateListing_update("A", ApiInputs)
    \/ updateListing_delete("A")
    \/ updateListing_media("A")
    \/ updateListingStatus("A", ApiInputs)
    \/ deleteListing_media("A", ApiInputs)
    \/ deleteListing_listing("A")
    \/ incrementViewCount("A", ApiInputs)
    \/ incrementInquiryCount("A", ApiInputs)
    \/ Return("A")

SpecApi == InitApi /\ [][NextApi]_vars

----------------------------------------------------------------------------
(* One caller querying a store of up to MaxListings listings *)

StoredRow(status, type, purpose, price, bedrooms, bathrooms, province, city, district) ==
    [prepareListingData(
        [FormData(<<>>) EXCEPT !.propertyType = type, !.purpose = purpose, !.price = price,
                               !.bedrooms = bedrooms, !.bathrooms = bathrooms,
                               !.province = province, !.city = city, !.district = district],
        "u1") EXCEPT !.status = status]

OneImage == <<[media_url |-> "https:a", is_primary |-> TRUE]>>

\* the listings a stored listing is drawn from: its row and its media rows
QueryListings ==
    {[row |-> StoredRow("active", "rumah", "jual", 500, 3, 2, "p1", "c1", "d1"),
      media |-> OneImage],
     [row |-> [StoredRow("active", "rumah", "sewa", 1000, 2, 1, "p1", "c2", "")
                  EXCEPT !.views = 1, !.is_promoted = TRUE],
      media |-> OneImage],
     [row |-> StoredRow("pending", "tanah", "jual", 900, 0, 0, "", "", ""),
      media |-> OneImage],
     [row |-> [StoredRow("active", "apartemen", "jual", 2, 1, 1, "p1", "c1", "")
                  EXCEPT !.price_unit = "miliar"],
      media |-> OneImage],
     [row |-> StoredRow("active", "rumah", "jual", 500, 3, 2, "p1", "c1", "d1"),
      media |-> <<>>]}

PriceRange(min, max) == {[min |-> min, max |-> max]}

QueryFilters ==
    {NoFilters,
     [NoFilters EXCEPT !.status = "active"],
     [NoFilters EXCEPT !.status = "all", !.type = "all", !.purpose = "all"],
     [NoFilters EXCEPT !.type = "rumah"],
     [NoFilters EXCEPT !.purpose = "jual"],
     [NoFilters EXCEPT !.priceRange = PriceRange({500}, {900})],
     [NoFilters EXCEPT !.priceRange = PriceRange({}, {900})],
     [NoFilters EXCEPT !.priceRange = PriceRange({900}, {})],
     [NoFilters EXCEPT !.bedrooms = {2}],
     [NoFilters EXCEPT !.bedrooms = {0}, !.bathrooms = {2}],
     [NoFilters EXCEPT !.location = [province |-> "p1", city |-> "", district |-> ""]],
     [NoFilters EXCEPT !.location = [province |-> "", city |-> "c1", district |-> ""]],
     [NoFilters EXCEPT !.location = [province |-> "p1", city |-> "c1", district |-> "d1"]],
     [NoFilters EXCEPT !.status = "active", !.type = "rumah",
                       !.priceRange = PriceRange({500}, {1000}), !.sortBy = "price_asc"],
     [NoFilters EXCEPT !.sortBy = "oldest"],
     [NoFilters EXCEPT !.sortBy = "newest"],
     [NoFilters EXCEPT !.sortBy = "price_desc"],
     [NoFilters EXCEPT !.sortBy = "views"],
     [NoFilters EXCEPT !.sortBy = "premium"],
     [NoFilters EXCEPT !.purpose = "jual", !.sortBy = "price_asc"]}

QueryInputs ==
    [Inputs({}, {}, {}, {"u1"})
        EXCEPT !.filters = QueryFilters, !.pages = {1, 2}, !.pageSizes = {1, 2, 10},
               !.lookups = {"ok"}]

InitQuery ==
    /\ now = 1
    /\ \E n \in 0..MaxListings :
          \E stored \in [1..n -> QueryListings] :
              /\ nextId = n + 1
              /\ listings = [i \in 1..n |-> InsertedRow(stored[i].row, i)]
              /\ media = [i \in ListingIds |-> IF i <= n THEN stored[i].media ELSE <<>>]
    /\ pc = [p \in Procs |-> "idle"]
    /\ op = [p \in Procs |-> "none"]
    /\ arg = [p \in Procs |-> NoArg]
    /\ ret = [p \in Procs |-> RetNone]
    /\ calls = [p \in Procs |-> <<>>]
    /\ premium = {}
    /\ profiles = {}

NextQuery ==
    \/ getAllListings("A", QueryInputs)
    \/ Return("A")

SpecQuery == InitQuery /\ [][NextQuery]_vars

----------------------------------------------------------------------------
(* One caller reading a listing by id, from stores that differ in the
   listing's location ids, its media rows and the owner's profile *)

Image(url, primary) == [media_url |-> url, is_primary |-> primary]

ReadRows ==
    {StoredRow("active", "rumah", "jual", 500, 3, 2, "p1", "c1", "d1"),
     StoredRow("sold", "rumah", "jual", 500, 0, 0, "zz", "c1", ""),
     StoredRow("pending", "tanah", "sewa", 900, 2, 0, "", "zz", "zz")}

ReadMedia ==
    {<<>>,
     <<Image("https:a", TRUE)>>,
     <<Image("https:a", FALSE), Image("pub:b", TRUE)>>,
     <<Image("https:a", FALSE), Image("pub:b", TRUE), Image("data:b", FALSE)>>}

ReadProfiles ==
    {{}, {[id |-> "u1", full_name |-> "Agent One"]}, {[id |-> "u1", full_name |-> ""]},
     {[id |-> "u2", full_name |-> "Agent Two"]}}

ReadInputs == Inputs({1}, {}, {}, {"u1"})

InitRead ==
    /\ now = 1
    /\ \/ listings = <<>> /\ media = [i \in ListingIds |-> <<>>]
       \/ \E row \in ReadRows, rows \in ReadMedia :
             /\ listings = (1 :> InsertedRow(row, 1))
             /\ media = [i \in ListingIds |-> IF i = 1 THEN rows ELSE <<>>]
    /\ nextId = 2
    /\ pc = [p \in Procs |-> "idle"]
    /\ op = [p \in Procs |-> "none"]
    /\ arg = [p \in Procs |-> NoArg]
    /\ ret = [p \in Procs |-> RetNone]
    /\ calls = [p \in Procs |-> <<>>]
    /\ premium = {}
    /\ profiles \in ReadProfiles

NextRead ==
    \/ getListingById_listing("A", ReadInputs)
    \/ getListingById_media("A")
    \/ getListingById_profile("A")
    \/ Return("A")

SpecRead == InitRead /\ [][NextRead]_vars

----------------------------------------------------------------------------
(* Two concurrent callers counting views and inquiries of one stored listing *)

CountInputs == Inputs({1}, {}, {}, {"u1"})

InitCount ==
    /\ now = 1
    /\ listings = (1 :> SeedRow) /\ media = SeedMedia /\ nextId = 2
    /\ pc = [p \in Procs |-> "idle"]
    /\ op = [p \in Procs |-> "none"]
    /\ arg = [p \in Procs |-> NoArg]
    /\ ret = [p \in Procs |-> RetNone]
    /\ calls = [p \in Procs |-> <<>>]
    /\ premium = {}
    /\ profiles = {}

NextCount ==
    \E p \in Procs :
        \/ incrementViewCount(p, CountInputs)
        \/ incrementInquiryCount(p, CountInputs)
        \/ Return(p)

SpecCount == InitCount /\ [][NextCount]_vars

----------------------------------------------------------------------------
(* One caller writing while time passes *)

\* the clock moves on between two steps
Tick ==
    /\ now < MaxTime
    /\ now' = now + 1
    /\ UNCHANGED <<listings, media, nextId, pc, op, arg, ret, calls, premium, profiles>>

ClockInputs == Inputs({1}, {<<>>, <<"https:a">>}, {"active", "sold"}, {"u1"})

InitClock == Init

NextClock ==
    \/ createListing_insert("A", ClockInputs)
    \/ createListing_media("A")
    \/ updateListing_update("A", ClockInputs)
    \/ updateListing_delete("A")
    \/ updateListing_media("A")
    \/ updateListingStatus("A", ClockInputs)
    \/ Return("A")
    \/ Tick

SpecClock == InitClock /\ [][NextClock]_vars

----------------------------------------------------------------------------
(* AnalyticsService: the sub-metrics of one snapshot.  Days are counted as
   integers and now is today.  A sub-metric is given o, the outcomes of the
   requests it may issue in the order it issues them, and yields the results
   it can return: how many requests it issued and its value.
   Numbers with one decimal are kept in tenths. *)

MaxFailures == 1

AgentLimit == 5

LocationLimit == 8

RECURSIVE Sum(_, _)
Sum(f, S) == IF S = {} THEN 0
             ELSE LET x == CHOOSE y \in S : TRUE IN f[x] + Sum(f, S \ {x})

Abs(n) == IF n < 0 THEN -n ELSE n

\* the functions that take at each d one of the values S[d]
Choices(S) ==
    {f \in [DOMAIN S -> UNION {S[d] : d \in DOMAIN S}] : \A d \in DOMAIN S : f[d] \in S[d]}

\* parseFloat((n / d).toFixed(1)) in tenths: the tenth nearest to the quotient;
\* where the quotient lies halfway the binary value decides, so either tenth
toFixed(n, d) ==
    LET q == (10 * n) \div d IN {t \in {q, q + 1} : 2 * Abs(t * d - 10 * n) <= d}

\* Math.random() scaled to lo..hi: the draws are kept to the ends of the range
random(lo, hi) == {lo, hi}

\* the locations and categories relations, which no method of the services writes
locations ==
    {[id |-> "p1", name |-> "Provinsi Satu", type |-> "provinsi", property_count |-> 2],
     [id |-> "c1", name |-> "Kota Satu", type |-> "kota", property_count |-> 0],
     [id |-> "p2", name |-> "Provinsi Dua", type |-> "provinsi", property_count |-> 0]}

categories ==
    {[name |-> "Rumah", property_count |-> 2], [name |-> "Tanah", property_count |-> 0]}

\* lines 15-30
subDays(date, dateRange) ==
    CASE dateRange = "7d" -> date - 7
      [] dateRange = "30d" -> date - 30
      [] dateRange = "90d" -> date - 90
      [] dateRange = "1y" -> date - 365
      [] OTHER -> date - 30

\* total > 0 ? parseFloat(((count / total) * 100).toFixed(1)) : 0
percentage(count, total) == IF total > 0 THEN toFixed(100 * count, total) ELSE {0}

\* the first request whose outcome ends the try block: a rejection, or an error
\* result the code reads and throws; 0 when the block runs to its end
Thrown(o, checked) ==
    LET bad == {i \in DOMAIN o : o[i] = "throw" \/ (o[i] = "error" /\ i \in checked)}
    IN IF bad = {} THEN 0 ELSE CHOOSE i \in bad : \A j \in bad : i <= j

Returned(issued, value) == [issued |-> issued, value |-> value]

\* a sub-metric's catch block: log and return the default
Caught(issued, default) == Returned(issued, default)

\* data of a select over the listings: null on an error result
Selected(out) == IF out = "ok" THEN DOMAIN listings ELSE {}

\* count of a head select: null on an error result, and count || 0
Counted(out, rows) == IF out = "ok" THEN Cardinality(rows) ELSE 0

\* lines 496-498, 507: priceInBillions * 1000, which is exact at the band bounds
priceInMillions(price, unit) == IF unit = "miliar" THEN price * 1000 ELSE price

TotalOf(ids, field) == Sum([id \in ids |-> listings[id][field]], ids)

TotalInMillions(ids) ==
    Sum([id \in ids |-> priceInMillions(listings[id].price, listings[id].price_unit)], ids)

\* the rate is rounded to the tenth below
conversionRateFloor(totalInquiries, totalViews) ==
    IF totalViews > 0 THEN {(1000 * totalInquiries) \div totalViews} ELSE {0}

\* lines 130, 158 and 625-627
conversionRate(totalInquiries, totalViews) ==
    IF totalViews > 0 THEN toFixed(100 * totalInquiries, totalViews) ELSE {0}

\* lines 137-149, 159: the average in billions
averagePrice(ids) ==
    IF ids # {} THEN toFixed(TotalInMillions(ids), 1000 * Cardinality(ids)) ELSE {0}

OverviewDefault ==
    [totalListings |-> 0, activeListings |-> 0, totalUsers |-> 0, totalAgents |-> 0,
     totalViews |-> 0, totalInquiries |-> 0, conversionRate |-> 0, averagePrice |-> 0]

\* lines 91-174: seven requests, none of whose error fields is read
getOverviewStats(o) ==
    LET t == Thrown(o, {})
        totalViews == TotalOf(Selected(o[5]), "views")
        totalInquiries == TotalOf(Selected(o[6]), "inquiries")
    IN IF t # 0 THEN {Caught(t, OverviewDefault)}
       ELSE {Returned(7,
               [totalListings |-> Counted(o[1], DOMAIN listings),
                activeListings |->
                    Counted(o[2], {id \in DOMAIN listings : listings[id].status = "active"}),
                totalUsers |-> Counted(o[3], profiles),
                totalAgents |-> Counted(o[4], {u \in profiles : u.role = "agent"}),
                totalViews |-> totalViews,
                totalInquiries |-> totalInquiries,
                conversionRate |-> rate,
                averagePrice |-> average]) :
               rate \in conversionRate(totalInquiries, totalViews),
               average \in averagePrice(Selected(o[7]))}

\* lines 179-202
getListingsByType(o) ==
    LET types == {listings[id].property_type : id \in DOMAIN listings}
    IN IF Thrown(o, {1}) # 0 THEN {Caught(1, <<>>)}
       ELSE {Returned(1,
               [type \in types |->
                   Cardinality({id \in DOMAIN listings : listings[id].property_type = type})])}

\* lines 207-269: the error of the second request is not read
getListingsByLocation(o) ==
    LET t == Thrown(o, {1})
        provinceIds == {listings[id].province_id : id \in DOMAIN listings} \ {Null, ""}
        provinceCounts == [x \in provinceIds |->
                              Cardinality({id \in DOMAIN listings : listings[id].province_id = x})]
        total == Sum(provinceCounts, provinceIds)
        names == IF o[2] = "ok"
                     THEN {l \in locations : l.id \in provinceIds /\ l.type = "provinsi"}
                     ELSE {}
        entries(l) == {[province |-> l.name, count |-> provinceCounts[l.id], percentage |-> x] :
                          x \in percentage(provinceCounts[l.id], total)}
    IN IF t = 1 THEN {Caught(1, <<>>)}
       ELSE IF provinceIds = {} THEN {Returned(1, <<>>)}
       ELSE IF t = 2 THEN {Caught(2, <<>>)}
       ELSE {Returned(2, [i \in DOMAIN order |-> rows[order[i]]]) :
               rows \in Choices([l \in names |-> entries(l)]),
               order \in {s \in Perms(names) :
                            \A i, j \in DOMAIN s :
                                i < j => provinceCounts[s[i].id] >= provinceCounts[s[j].id]}}

\* lines 274-303
getListingsByPurpose(o) ==
    IF Thrown(o, {1}) # 0 THEN {Caught(1, [jual |-> 0, sewa |-> 0])}
    ELSE {Returned(1,
            [jual |-> Cardinality({id \in DOMAIN listings : listings[id].purpose = "jual"}),
             sewa |-> Cardinality({id \in DOMAIN listings : listings[id].purpose = "sewa"})])}

\* lines 308-323: the error of the request is not read
getActiveListingsCount(days, o) ==
    IF Thrown(o, {}) # 0 THEN {Caught(1, 0)}
    ELSE {Returned(1, Counted(o[1], {id \in DOMAIN listings :
                                        /\ listings[id].status = "active"
                                        /\ listings[id].created_at >= now - days}))}

\* lines 328-384: the error of the second request is not read
getUserRegistrationsOverTime(startDate, endDate, o) ==
    LET t == Thrown(o, {1})
        data == {u \in profiles : startDate <= u.created_at /\ u.created_at <= endDate}
        registrationsByDate(date) == Cardinality({u \in data : u.created_at = date})
        initialCount == Counted(o[2], {u \in profiles : u.created_at < startDate})
        dates == startDate..endDate
        series == [date \in dates |-> registrationsByDate(date)]
    IN IF t # 0 THEN {Caught(t, <<>>)}
       ELSE {Returned(2,
               [i \in 1..(endDate - startDate + 1) |->
                   [date |-> startDate + i - 1,
                    count |-> series[startDate + i - 1],
                    cumulative |-> initialCount + Sum(series, startDate..(startDate + i - 1))]])}

\* a relation's rows by property_count descending, the first limit of them
Popular(rows, limit) ==
    {SubSeq(s, 1, Min(limit, Len(s))) :
        s \in {s \in Perms({r \in rows : r.property_count > 0}) :
                 \A i, j \in DOMAIN s : i < j => s[i].property_count >= s[j].property_count}}

\* lines 389-424
getPopularLocations(o) ==
    IF Thrown(o, {1}) # 0 THEN {Caught(1, <<>>)}
    ELSE UNION {{Returned(1, [i \in DOMAIN data |->
                                 [name |-> data[i].name, type |-> data[i].type,
                                  count |-> data[i].property_count, growth |-> growth[i]]]) :
                    growth \in [DOMAIN data -> random(0, 250)]} :
                  data \in Popular(locations, LocationLimit)}

\* lines 429-468
getPopularCategories(o) ==
    LET total == Sum([c \in categories |-> c.property_count], categories)
    IN IF Thrown(o, {1}) # 0 THEN {Caught(1, <<>>)}
       ELSE UNION {{Returned(1, [i \in DOMAIN data |->
                                    [name |-> data[i].name, count |-> data[i].property_count,
                                     percentage |-> share[data[i]], growth |-> growth[i]]]) :
                       share \in Choices([c \in categories |->
                                             percentage(c.property_count, total)]),
                       growth \in [DOMAIN data -> random(0, 200)]} :
                     data \in Popular(categories, Cardinality(categories))}

\* lines 484-491: the six price bands, in the order they are reported
priceRangeCounts ==
    <<"< 500 Juta", "500 Juta - 1 Miliar", "1 - 2 Miliar", "2 - 5 Miliar", "5 - 10 Miliar",
      "> 10 Miliar">>

\* the upper bounds of the bands are inclusive
priceRangeInclusive(millions) ==
    IF millions <= 500 THEN 1
    ELSE IF millions <= 1000 THEN 2
    ELSE IF millions <= 2000 THEN 3
    ELSE IF millions <= 5000 THEN 4
    ELSE IF millions <= 10000 THEN 5
    ELSE 6

\* lines 509-521: the band a price falls in
priceRange(millions) ==
    IF millions < 500 THEN 1
    ELSE IF millions < 1000 THEN 2
    ELSE IF millions < 2000 THEN 3
    ELSE IF millions < 5000 THEN 4
    ELSE IF millions < 10000 THEN 5
    ELSE 6

\* lines 473-556
getPriceAnalysis(o) ==
    LET ids == DOMAIN listings
        types == {listings[id].property_type : id \in ids}
        pricesByType(type) == {id \in ids : listings[id].property_type = type}
        counts == [b \in DOMAIN priceRangeCounts |->
                      Cardinality({id \in ids :
                          priceRange(priceInMillions(listings[id].price,
                                                     listings[id].price_unit)) = b})]
        total == Sum(counts, DOMAIN counts)
    IN IF Thrown(o, {1}) # 0
       THEN {Caught(1, [averageByType |-> <<>>, priceRanges |-> <<>>])}
       ELSE {Returned(1,
               [averageByType |-> average,
                priceRanges |-> [b \in DOMAIN priceRangeCounts |->
                                    [range |-> priceRangeCounts[b], count |-> counts[b],
                                     percentage |-> share[b]]]]) :
               average \in Choices([type \in types |-> averagePrice(pricesByType(type))]),
               share \in Choices([b \in DOMAIN priceRangeCounts |->
                                     percentage(counts[b], total)])}

\* lines 561-593: no request; one entry per day, its numbers drawn at random,
\* here with one draw for the whole series
getPerformanceMetrics(startDate, endDate) ==
    {Returned(0, [i \in 1..(endDate - startDate + 1) |->
                     [date |-> startDate + i - 1,
                      views |-> 3000 + draw * 4999, inquiries |-> 200 + draw * 399,
                      newListings |-> 20 + draw * 59, newUsers |-> 15 + draw * 34]]) :
        draw \in random(0, 1)}

\* the agents a select with limit(AgentLimit) and no order can return
Agents ==
    LET agents == {u \in profiles : u.role = "agent"}
    IN UNION {Perms(S) : S \in {S \in SUBSET agents :
                                   Cardinality(S) = Min(AgentLimit, Cardinality(agents))}}

\* lines 620-637: the entry of an agent, from the listings fetched for the agent
AgentEntry(agent, ids) ==
    {[agentId |-> agent.id, agentName |-> agent.full_name,
      totalListings |-> Cardinality(ids),
      activeListings |-> Cardinality({id \in ids : listings[id].status = "active"}),
      totalViews |-> TotalOf(ids, "views"),
      totalInquiries |-> TotalOf(ids, "inquiries"),
      conversionRate |-> rate] :
        rate \in conversionRate(TotalOf(ids, "inquiries"), TotalOf(ids, "views"))}

\* line 643: a stable sort by totalViews descending; an entry's place is one
\* more than the number of entries that go before it
SortedByViews(result) ==
    LET ahead(i) == {j \in DOMAIN result :
                        \/ result[j].totalViews > result[i].totalViews
                        \/ result[j].totalViews = result[i].totalViews /\ j < i}
    IN [k \in DOMAIN result |->
           result[CHOOSE i \in DOMAIN result : Cardinality(ahead(i)) = k - 1]]

RECURSIVE Pushed(_, _, _)
\* lines 612-640: the entries pushed for agents[i..], the fetch for agents[k]
\* being request k + 1; an agent whose fetch gave no rows is skipped
Pushed(agents, o, i) ==
    IF i > Len(agents) THEN {<<>>}
    ELSE LET ids == {id \in Selected(o[i + 1]) : listings[id].user_id = agents[i].id}
             entries == IF ids = {} THEN {<<>>} ELSE {<<e>> : e \in AgentEntry(agents[i], ids)}
         IN {first \o rest : first \in entries, rest \in Pushed(agents, o, i + 1)}

\* lines 598-650: the error of an agent's listings request is not read
getAgentPerformance(o) ==
    LET t == Thrown(o, {1})
    IN IF t = 1 THEN {Caught(1, <<>>)}
       ELSE UNION {IF t # 0 /\ t <= 1 + Len(agents) THEN {Caught(t, <<>>)}
                   ELSE {Returned(1 + Len(agents), SortedByViews(result)) :
                           result \in Pushed(agents, o, 1)} :
                   agents \in Agents}

\* the sub-metrics in the order lines 33-64 await them
Metrics ==
    <<"overview", "listingsByType", "listingsByLocation", "listingsByPurpose",
      "activeListingsToday", "activeListingsThisWeek", "userRegistrations",
      "popularLocations", "popularCategories", "priceAnalysis", "performanceMetrics",
      "agentPerformance">>

\* the most requests a sub-metric issues
MaxRequests(metric) ==
    CASE metric = "overview" -> 7
      [] metric \in {"listingsByLocation", "userRegistrations"} -> 2
      [] metric = "performanceMetrics" -> 0
      [] metric = "agentPerformance" ->
            1 + Min(AgentLimit, Cardinality({u \in profiles : u.role = "agent"}))
      [] OTHER -> 1

\* the relation a sub-metric's i-th request reads
Relation(metric, i) ==
    CASE metric = "overview" -> IF i \in {3, 4} THEN "user_profiles" ELSE "listings"
      [] metric = "listingsByLocation" -> IF i = 1 THEN "listings" ELSE "locations"
      [] metric = "userRegistrations" -> "user_profiles"
      [] metric = "popularLocations" -> "locations"
      [] metric = "popularCategories" -> "categories"
      [] metric = "agentPerformance" -> IF i = 1 THEN "user_profiles" ELSE "listings"
      [] OTHER -> "listings"

\* lines 33-64: the call of one sub-metric
SubMetric(metric, dateRange, o) ==
    CASE metric = "overview" -> getOverviewStats(o)
      [] metric = "listingsByType" -> getListingsByType(o)
      [] metric = "listingsByLocation" -> getListingsByLocation(o)
      [] metric = "listingsByPurpose" -> getListingsByPurpose(o)
      [] metric = "activeListingsToday" -> getActiveListingsCount(1, o)
      [] metric = "activeListingsThisWeek" -> getActiveListingsCount(7, o)
      [] metric = "userRegistrations" ->
            getUserRegistrationsOverTime(subDays(now, dateRange), now, o)
      [] metric = "popularLocations" -> getPopularLocations(o)
      [] metric = "popularCategories" -> getPopularCategories(o)
      [] metric = "priceAnalysis" -> getPriceAnalysis(o)
      [] metric = "performanceMetrics" ->
            getPerformanceMetrics(subDays(now, dateRange), now)
      [] metric = "agentPerformance" -> getAgentPerformance(o)

\* the value a sub-metric's catch block returns
MetricDefault(metric) ==
    CASE metric = "overview" -> OverviewDefault
      [] metric = "listingsByPurpose" -> [jual |-> 0, sewa |-> 0]
      [] metric \in {"activeListingsToday", "activeListingsThisWeek"} -> 0
      [] metric = "priceAnalysis" -> [averageByType |-> <<>>, priceRanges |-> <<>>]
      [] OTHER -> <<>>

Failures(requests) == Cardinality({i \in DOMAIN requests : requests[i].out # "ok"})

\* lines 80-85: the static dataset of getMockAnalyticsData
RetStatic == Value("static", 0)

\* lines 66-79
RetSnapshot(snapshot) == [Value("snapshot", 0) EXCEPT !.data = <<snapshot>>]

\* lines 9-30: the call starts; topLevel is whether the body itself throws,
\* outside the sub-metrics
getAnalyticsData(p, in) ==
    /\ pc[p] = "idle"
    /\ \E dateRange \in in.dateRanges, topLevel \in in.topLevel :
          LET q == [dateRange |-> dateRange, topLevel |-> topLevel, done |-> 0,
                    failed |-> {},
                    snapshot |-> [metric \in {Metrics[i] : i \in DOMAIN Metrics} |->
                                     MetricDefault(metric)]]
          IN /\ BeginAll(p, "getAnalyticsData", <<>>)
             /\ IF topLevel = "throw"
                THEN Resolve(p, Arg(0, <<>>, q), RetStatic)
                ELSE Await(p, "getAnalyticsData", Arg(0, <<>>, q))
    /\ UNCHANGED <<listings, media, nextId>>

\* lines 33-79: the next sub-metric runs to its end, and q.failed keeps the
\* sub-metrics one of whose requests failed; after the last one the snapshot
\* is returned
getAnalyticsData_metric(p, in) ==
    /\ pc[p] = "getAnalyticsData"
    /\ LET q == arg[p].q
           metric == Metrics[q.done + 1]
       IN \E o \in [1..MaxRequests(metric) -> in.lookups] :
             /\ Failures(calls[p]) + Cardinality({i \in DOMAIN o : o[i] # "ok"}) <= MaxFailures
             /\ \E r \in SubMetric(metric, q.dateRange, o) :
                   LET next == [q EXCEPT !.done = @ + 1, !.snapshot[metric] = r.value,
                                         !.failed = IF \A i \in 1..r.issued : o[i] = "ok"
                                                    THEN @ ELSE @ \cup {metric}]
                   IN /\ \A i \in DOMAIN o : i > r.issued => o[i] = "ok"
                      /\ op' = op
                      /\ calls' = [calls EXCEPT ![p] =
                                      @ \o [i \in 1..r.issued |->
                                               Request(Relation(metric, i), "select", o[i], FALSE)]]
                      /\ IF next.done = Len(Metrics)
                         THEN Resolve(p, Arg(0, <<>>, next), RetSnapshot(next.snapshot))
                         ELSE Await(p, "getAnalyticsData", Arg(0, <<>>, next))
    /\ UNCHANGED <<listings, media, nextId, premium, profiles, now>>

----------------------------------------------------------------------------
(* One caller taking analytics snapshots of a fixed store, with at most
   MaxFailures failing requests in a call (SpecAnalytics), and of stores of up
   to MaxListings listings with every request answered (SpecMetrics) *)

Profile(id, name, role, created) ==
    [id |-> id, full_name |-> name, role |-> role, created_at |-> created]

AnalyticsProfiles ==
    {Profile("u1", "Agent One", "agent", 1), Profile("u2", "Agent Two", "agent", 5),
     Profile("u3", "User Three", "user", 9)}

Viewed(row, user, views, inquiries) ==
    [row EXCEPT !.user_id = user, !.views = views, !.inquiries = inquiries]

\* the rows a stored listing is drawn from
AnalyticsListings ==
    {Viewed(StoredRow("active", "rumah", "jual", 500, 3, 2, "p1", "c1", "d1"), "u1", 1000, 57),
     Viewed(StoredRow("sold", "tanah", "sewa", 499, 0, 0, "", "", ""), "u2", 3, 2),
     Viewed([StoredRow("active", "apartemen", "jual", 1, 1, 1, "p1", "c1", "")
                EXCEPT !.price_unit = "miliar"], "u2", 0, 0),
     Viewed(StoredRow("pending", "rumah", "jual", 10000, 2, 1, "p2", "", ""), "u3", 0, 0)}

AnalyticsInputs ==
    [Inputs({}, {}, {}, {"u1"}) EXCEPT !.dateRanges = {"7d", "30d"}]

InitAnalytics ==
    /\ now = 9
    /\ \E stored \in {<<>>, <<1, 2>>} :
          /\ nextId = Len(stored) + 1
          /\ listings = [i \in DOMAIN stored |->
                            InsertedRow(CHOOSE row \in AnalyticsListings :
                                            row.views = IF stored[i] = 1 THEN 1000 ELSE 3, i)]
    /\ media = [i \in ListingIds |-> <<>>]
    /\ pc = [p \in Procs |-> "idle"]
    /\ op = [p \in Procs |-> "none"]
    /\ arg = [p \in Procs |-> NoArg]
    /\ ret = [p \in Procs |-> RetNone]
    /\ calls = [p \in Procs |-> <<>>]
    /\ premium = {}
    /\ profiles = AnalyticsProfiles

NextAnalytics ==
    \/ getAnalyticsData("A", AnalyticsInputs)
    \/ getAnalyticsData_metric("A", AnalyticsInputs)
    \/ Return("A")

SpecAnalytics == InitAnalytics /\ [][NextAnalytics]_vars

MetricsInputs ==
    [Inputs({}, {}, {}, {"u1"})
        EXCEPT !.dateRanges = {"7d"}, !.topLevel = {"ok"}, !.lookups = {"ok"}]

InitMetrics ==
    /\ now = 9
    /\ \E n \in 0..MaxListings :
          \E stored \in [1..n -> AnalyticsListings] :
              /\ nextId = n + 1
              /\ listings = [i \in 1..n |-> InsertedRow(stored[i], i)]
    /\ media = [i \in ListingIds |-> <<>>]
    /\ pc = [p \in Procs |-> "idle"]
    /\ op = [p \in Procs |-> "none"]
    /\ arg = [p \in Procs |-> NoArg]
    /\ ret = [p \in Procs |-> RetNone]
    /\ calls = [p \in Procs |-> <<>>]
    /\ premium = {}
    /\ profiles = AnalyticsProfiles

NextMetrics ==
    \/ getAnalyticsData("A", MetricsInputs)
    \/ getAnalyticsData_metric("A", MetricsInputs)
    \/ Return("A")

SpecMetrics == InitMetrics /\ [][NextMetrics]_vars

----------------------------------------------------------------------------
(* One caller taking analytics snapshots of a store in which more agents than
   AgentLimit have a listing each (SpecAgents) *)

AgentIds == <<"a1", "a2", "a3", "a4", "a5", "a6">>

AgentProfiles == {Profile(AgentIds[i], AgentIds[i], "agent", i) : i \in DOMAIN AgentIds}

\* the views of the agents' listings, in the order of AgentIds
AgentViews == {[i \in DOMAIN AgentIds |-> 10 * i], [i \in DOMAIN AgentIds |-> 70 - 10 * i]}

AgentsInputs ==
    [Inputs({}, {}, {}, {"u1"})
        EXCEPT !.dateRanges = {"7d", "30d"}, !.topLevel = {"ok"}, !.lookups = {"ok"}]

InitAgents ==
    /\ now = 9
    /\ \E views \in AgentViews :
          listings = [i \in DOMAIN AgentIds |->
                         InsertedRow(Viewed(StoredRow("active", "rumah", "jual", 500, 3, 2,
                                                      "p1", "c1", "d1"),
                                            AgentIds[i], views[i], 1), i)]
    /\ nextId = Len(AgentIds) + 1
    /\ media = [i \in ListingIds |-> <<>>]
    /\ pc = [p \in Procs |-> "idle"]
    /\ op = [p \in Procs |-> "none"]
    /\ arg = [p \in Procs |-> NoArg]
    /\ ret = [p \in Procs |-> RetNone]
    /\ calls = [p \in Procs |-> <<>>]
    /\ premium = {}
    /\ profiles = AgentProfiles

NextAgents ==
    \/ getAnalyticsData("A", AgentsInputs)
    \/ getAnalyticsData_metric("A", AgentsInputs)
    \/ Return("A")

SpecAgents == InitAgents /\ [][NextAgents]_vars

----------------------------------------------------------------------------
(* Properties of the write methods under concurrent callers (Spec) *)

IsRequest(r, rel, verb) == r.rel = rel /\ r.verb = verb

Resolved(p, method) == pc[p] = "resolved" /\ op[p] = method

PrimaryCount(rows) == Cardinality({i \in 1..Len(rows) : rows[i].is_primary})

\* C1: deleteListing issues the delete of the listing's media rows before the
\* delete of the listing row, never issues the listing delete after a media
\* delete that reported an error, and when it returns true the listing and
\* its media rows are absent from the store.
C1_DeleteMediaFirst ==
    \A p \in Procs :
        /\ op[p] = "deleteListing" =>
              \A i \in 1..Len(calls[p]) :
                  IsRequest(calls[p][i], "listings", "delete") =>
                      /\ i = 2
                      /\ IsRequest(calls[p][1], "property_media", "delete")
                      /\ calls[p][1].out = "ok"
        /\ (Resolved(p, "deleteListing") /\ ret[p] = RetTrue) =>
              /\ arg[p].id \notin DOMAIN listings
              /\ media[arg[p].id] = <<>>

\* a deleteListing that returned true after deleting a stored listing that
\* had media rows
C1_Witness ==
    \E p \in Procs :
        /\ Resolved(p, "deleteListing") /\ ret[p] = RetTrue
        /\ calls[p][1].hit /\ calls[p][2].hit

\* C2: every listing that has at least one property_media row has exactly
\* one row with is_primary = true, in every reachable state.
C2_ExactlyOnePrimary ==
    \A id \in ListingIds : media[id] # <<>> => PrimaryCount(media[id]) = 1

\* C3: a write method that returns its failure value (null or false) has not
\* changed the stored listings and property_media rows.
C3_FailureMeansNoChange ==
    \A p \in Procs :
        (/\ pc[p] = "resolved"
         /\ op[p] \in {"createListing", "updateListing", "updateListingStatus", "deleteListing"}
         /\ ret[p] \in {RetNull, RetFalse})
        => \A i \in 1..Len(calls[p]) : ~calls[p][i].hit

\* C6: when updateListing(id, formData) returns true, the property_media rows
\* of listing id are exactly the rows derived from formData.images, one per
\* image in the same order.
C6_ReplaceAll ==
    [][\A p \in Procs :
          (/\ pc[p] # "resolved"
           /\ pc'[p] = "resolved"
           /\ op'[p] = "updateListing"
           /\ ret'[p] = RetTrue)
          => media'[arg'[p].id] \in mediaRecords(arg'[p].images)]_vars

\* C7: the row createListing inserts has status 'pending' and views and
\* inquiries 0, and the media insert that follows adds one row per supplied
\* image, in order, of which only the first is flagged is_primary; with no
\* image no media request is issued.
C7_CreateForcesDefaults ==
    [][\A p \in Procs :
          /\ (pc[p] = "idle" /\ op'[p] = "createListing" /\ calls'[p][1].out = "ok") =>
                /\ nextId \in DOMAIN listings' /\ nextId \notin DOMAIN listings
                /\ listings'[nextId].status = "pending"
                /\ listings'[nextId].views = 0
                /\ listings'[nextId].inquiries = 0
                /\ (arg'[p].images = <<>>) = (pc'[p] = "resolved")
          /\ (pc[p] = "createListing_media" /\ pc'[p] = "resolved") =>
                LET id == arg[p].id
                    images == arg[p].images
                    old == Len(media[id])
                    added == SubSeq(media'[id], old + 1, Len(media'[id]))
                IN /\ IsRequest(calls'[p][2], "property_media", "insert")
                   /\ ret'[p] = RetId(id)
                   /\ SubSeq(media'[id], 1, old) = media[id]
                   /\ calls'[p][2].out # "ok" => added = <<>>
                   /\ calls'[p][2].out = "ok" =>
                         /\ Len(added) = Len(images)
                         /\ \A i \in 1..Len(images) :
                               /\ added[i].is_primary = (i = 1)
                               /\ added[i].media_url \in uploadImage(images[i])]_vars

\* a createListing that returned the new id after storing two media rows
C7_Witness ==
    \E p \in Procs :
        /\ Resolved(p, "createListing") /\ ret[p].kind = "id"
        /\ Len(arg[p].images) = 2
        /\ calls[p][2].out = "ok"
        /\ Len(media[ret[p].id]) >= 2

\* C9: every stored listing's status is a member of the status enum of the
\* Listing type, in every reachable state.
C9_StatusInEnum ==
    \A id \in DOMAIN listings : listings[id].status \in ListingStatus

----------------------------------------------------------------------------
(* Properties of the whole service used by one caller (SpecApi) *)

PublicMethods ==
    {"getAllListings", "getUserListings", "getListingById", "createListing",
     "updateListing", "updateListingStatus", "deleteListing"}

\* the default the claim gives each method
DefaultOf(method) ==
    CASE method = "getAllListings" -> [kind |-> "page", id |-> 0, data |-> <<>>, count |-> 0]
      [] method = "getUserListings" -> [kind |-> "list", id |-> 0, data |-> <<>>, count |-> 0]
      [] method \in {"getListingById", "createListing"} -> RetNull
      [] method \in {"updateListing", "updateListingStatus", "deleteListing"} -> RetFalse

\* no row matched the query of a list-returning method that was answered
ZeroRows(p) ==
    /\ calls[p][1].out = "ok"
    /\ op[p] = "getAllListings" =>
          \A id \in JoinedInner : ~Matches(listings[id], arg[p].q.filters)
    /\ op[p] = "getUserListings" =>
          \A id \in DOMAIN listings : listings[id].user_id # arg[p].q.userId

NeverRaises(p) ==
    /\ ret[p].kind # "raised"
    /\ (pc[p] = "resolved" /\ op[p] \in {"getAllListings", "getUserListings"} /\ ZeroRows(p))
          => ret[p] = DefaultOf(op[p])

\* C4: no public method raises; on any backend error or thrown
\* exception it returns its type's default; the default of a list-returning
\* method is the value it returns when zero rows match.
C4_DefaultOnAnyError ==
    \A p \in Procs :
        /\ NeverRaises(p)
        /\ (/\ pc[p] = "resolved" /\ op[p] \in PublicMethods
            /\ \E i \in 1..Len(calls[p]) : calls[p][i].out # "ok")
           => ret[p] = DefaultOf(op[p])

\* C5: a successful update of the listing row by updateListing writes the
\* field set createListing writes: the row's status is 'pending', its views
\* and inquiries are 0 and is_promoted is false, whatever they were before.
C5_UpdateResetsFields ==
    [][\A p \in Procs :
          (/\ pc[p] = "idle" /\ op'[p] = "updateListing"
           /\ calls'[p][1].out = "ok"
           /\ arg'[p].id \in DOMAIN listings)
          => LET id == arg'[p].id
                 row == listings'[id]
             IN /\ pc'[p] = "updateListing_delete"
                /\ row.status = "pending"
                /\ row.views = 0
                /\ row.inquiries = 0
                /\ row.is_promoted = FALSE
                /\ row.created_at = listings[id].created_at
                /\ \E userId \in Users :
                      row = InsertedRow(prepareListingData(FormData(arg'[p].images), userId),
                                        row.created_at)]_vars

\* an updateListing that returned true for a stored row it changed, the row
\* now being as createListing leaves it
C5_Witness ==
    \E p \in Procs :
        /\ Resolved(p, "updateListing") /\ ret[p] = RetTrue
        /\ calls[p][1].hit
        /\ arg[p].id \in DOMAIN listings
        /\ listings[arg[p].id].status = "pending"
        /\ listings[arg[p].id].views = 0

\* C8: the status of every summary getUserListings returns is one of the four
\* UI statuses: active for active; pending for pending and draft; inactive
\* for rejected, rented and sold; expired for every other stored value.
C8_StatusCollapse ==
    \A p \in Procs :
        (Resolved(p, "getUserListings") /\ ret[p].kind = "list") =>
            \A i \in 1..Len(ret[p].data) :
                LET shown == ret[p].data[i].status
                    stored == listings[ret[p].data[i].id].status
                IN /\ shown \in UserListingStatus
                   /\ stored = "active" => shown = "active"
                   /\ stored \in {"pending", "draft"} => shown = "pending"
                   /\ stored \in {"rejected", "rented", "sold"} => shown = "inactive"
                   /\ stored \notin {"active", "pending", "draft", "rejected", "rented", "sold"}
                         => shown = "expired"

\* a summary of a listing stored as 'inactive', shown as expired
C8_Witness ==
    \E p \in Procs :
        /\ Resolved(p, "getUserListings")
        /\ \E i \in 1..Len(ret[p].data) :
              /\ listings[ret[p].data[i].id].status = "inactive"
              /\ ret[p].data[i].status = "expired"

----------------------------------------------------------------------------
(* Properties of the list query (SpecQuery) *)

Answered(p) == \A i \in 1..Len(calls[p]) : calls[p][i].out = "ok"

\* the conjunction of the supplied filters, as the claim words it
Satisfies(row, f) ==
    /\ f.status \notin {"", "all"} => row.status = f.status
    /\ f.type \notin {"", "all"} => row.property_type = f.type
    /\ f.purpose \notin {"", "all"} => row.purpose = f.purpose
    /\ \A r \in f.priceRange :
          /\ \A lowest \in r.min : lowest <= row.price
          /\ \A highest \in r.max : row.price <= highest
    /\ \A n \in f.bedrooms : n > 0 => (row.bedrooms # {} /\ \A b \in row.bedrooms : n <= b)
    /\ \A n \in f.bathrooms : n > 0 => (row.bathrooms # {} /\ \A b \in row.bathrooms : n <= b)
    /\ f.location.province # "" => row.province_id = f.location.province
    /\ f.location.city # "" => row.city_id = f.location.city
    /\ f.location.district # "" => row.district_id = f.location.district

\* C10: an answered getAllListings returns, of the joined listings that
\* satisfy every supplied filter, the rows at the positions (page-1)*pageSize
\* to (page-1)*pageSize + pageSize - 1 of their sorted order, and their number
\* as count; the windows of consecutive pages are contiguous and disjoint.
C10_FilterAndWindow ==
    /\ \A page \in 1..3, pageSize \in {1, 2, 10} :
          /\ RangeFrom(1, pageSize) = 0
          /\ RangeTo(1, pageSize) = pageSize - 1
          /\ RangeFrom(page + 1, pageSize) = RangeTo(page, pageSize) + 1
    /\ \A p \in Procs :
          (Resolved(p, "getAllListings") /\ Answered(p)) =>
              LET f == arg[p].q.filters
                  from == (arg[p].q.page - 1) * arg[p].q.pageSize
                  to == from + arg[p].q.pageSize - 1
                  data == ret[p].data
                  all == {id \in JoinedInner : Satisfies(listings[id], f)}
                  ahead(id) == {m \in all : Before(listings[m], listings[id], f.sortBy)}
                  upTo(id) == {m \in all : ~Before(listings[id], listings[m], f.sortBy)}
              IN /\ ret[p].count = Cardinality(all)
                 /\ Len(data) = Cardinality({k \in from..to : k < Cardinality(all)})
                 /\ \A i \in 1..Len(data) :
                       /\ data[i].id \in all
                       /\ \A j \in 1..Len(data) : i # j => data[i].id # data[j].id
                       /\ Cardinality(ahead(data[i].id)) <= from + i - 1
                       /\ Cardinality(upTo(data[i].id)) >= from + i

\* the second page of size 1 of a price-range query both of whose bounds are
\* met by a stored price, with a stored listing outside the range
C10_Witness ==
    \E p \in Procs :
        /\ Resolved(p, "getAllListings") /\ Answered(p)
        /\ arg[p].q.filters.priceRange = PriceRange({500}, {900})
        /\ arg[p].q.page = 2 /\ arg[p].q.pageSize = 1
        /\ Len(ret[p].data) = 1
        /\ ret[p].count = 2
        /\ {listings[id].price : id \in JoinedInner} = {500, 900, 1000}

\* C11: the items of an answered getAllListings are in the order of the sort
\* key: newest by created_at descending, oldest ascending, price_asc by price
\* non-decreasing, price_desc non-increasing, views non-increasing, premium
\* with the promoted items first and each group newest first; without a sort
\* key the order is newest first.
C11_SortOrder ==
    \A p \in Procs :
        (Resolved(p, "getAllListings") /\ Answered(p)) =>
            LET key == arg[p].q.filters.sortBy
                data == ret[p].data
            IN \A i, j \in 1..Len(data) :
                  i < j =>
                     /\ key \in {"newest", ""} => data[i].createdAt >= data[j].createdAt
                     /\ key = "oldest" => data[i].createdAt <= data[j].createdAt
                     /\ key = "price_asc" => data[i].price <= data[j].price
                     /\ key = "price_desc" => data[i].price >= data[j].price
                     /\ key = "views" => data[i].views >= data[j].views
                     /\ key = "premium" =>
                           /\ data[j].isPromoted => data[i].isPromoted
                           /\ data[i].isPromoted = data[j].isPromoted
                                 => data[i].createdAt >= data[j].createdAt

\* a premium-sorted page of three items in which the promoted listing, the
\* oldest of the three, comes first
C11_Witness ==
    \E p \in Procs :
        /\ Resolved(p, "getAllListings") /\ Answered(p)
        /\ arg[p].q.filters.sortBy = "premium"
        /\ Len(ret[p].data) = 3
        /\ ret[p].data[1].isPromoted /\ ~ret[p].data[2].isPromoted
        /\ ret[p].data[1].createdAt < ret[p].data[3].createdAt

\* the price of a row or an item in juta: 1 miliar is 1000 juta
InJuta(price, unit) == IF unit = "miliar" THEN price * 1000 ELSE price

\* C12: getAllListings compares prices scaled by their unit: the items of a
\* price_asc (price_desc) page are non-decreasing (non-increasing) in the
\* scaled price, and a listing that passes the upper price bound is never
\* dearer, in the scaled price, than a listing the bound excludes.
C12_PricesScaledByUnit ==
    \A p \in Procs :
        (Resolved(p, "getAllListings") /\ Answered(p)) =>
            LET f == arg[p].q.filters
                data == ret[p].data
                scaled(i) == InJuta(data[i].price, data[i].priceUnit)
            IN /\ \A i, j \in 1..Len(data) :
                     i < j =>
                        /\ f.sortBy = "price_asc" => scaled(i) <= scaled(j)
                        /\ f.sortBy = "price_desc" => scaled(i) >= scaled(j)
               /\ \A i \in 1..Len(data), y \in JoinedInner, r \in f.priceRange :
                     \A highest \in r.max :
                        listings[y].price > highest =>
                           InJuta(listings[y].price, listings[y].price_unit) > scaled(i)

----------------------------------------------------------------------------
(* Properties of getListingById and of the transform (SpecRead) *)

\* the listing the call asked for is stored
Found(p) == arg[p].id \in DOMAIN listings

\* request i of the call rejected
Rejected(p, i) == i <= Len(calls[p]) /\ calls[p][i].out = "throw"

\* rows are the stored media rows of the listing in some order
Rearranged(rows, stored) ==
    /\ Len(rows) = Len(stored)
    /\ \E o \in Perms(1..Len(stored)) : \A i \in 1..Len(stored) : rows[i] = stored[o[i]]

PrimaryRowsFirst(rows) ==
    \A i, j \in 1..Len(rows) : i < j => ~(rows[j].is_primary /\ ~rows[i].is_primary)

\* what the claim says of a returned Property: images from the media rows,
\* primary first, or the placeholder; the agent from the profile, or the
\* 'Unknown Agent' summary
Degrades(p) ==
    LET property == ret[p].data[1]
        rows == arg[p].q.media
        owner == {r \in profiles : r.id = arg[p].q.listing.user_id}
    IN /\ calls[p][2].out = "ok" => Rearranged(rows, media[arg[p].id]) /\ PrimaryRowsFirst(rows)
       /\ calls[p][2].out # "ok" => rows = <<>>
       /\ rows # <<>> => property.images = [i \in 1..Len(rows) |-> rows[i].media_url]
       /\ rows = <<>> => property.images = <<Placeholder>>
       /\ (calls[p][3].out # "ok" \/ owner = {}) =>
             /\ property.agent.name = "Unknown Agent"
             /\ property.agent.id = arg[p].q.listing.user_id
       /\ (calls[p][3].out = "ok" /\ owner # {}) =>
             \E r \in owner : property.agent.name \in {r.full_name, "Unknown Agent"}
                              /\ (r.full_name # "" => property.agent.name = r.full_name)

\* C13 as stated: getListingById returns null exactly when the listing fetch
\* fails or finds no row; a found listing gives a Property with the primary
\* media first, and a failure or empty result of the media or profile fetch
\* degrades to the placeholder image and the 'Unknown Agent' summary.
C13_NullIffListingMissing ==
    \A p \in Procs :
        Resolved(p, "getListingById") =>
            /\ (ret[p] = RetNull) = (calls[p][1].out # "ok" \/ ~Found(p))
            /\ ret[p] # RetNull => ret[p].kind = "property" /\ Degrades(p)

\* C13 as amended: getListingById returns null exactly when the listing fetch
\* fails or finds no row, or the media or profile request rejects; otherwise
\* it returns a Property with the primary media first, and an error reported
\* by, or an empty result of, the media or profile fetch degrades to the
\* placeholder image and the 'Unknown Agent' summary.
C13_NullIffListingMissingOrRejected ==
    \A p \in Procs :
        Resolved(p, "getListingById") =>
            /\ (ret[p] = RetNull) =
                  (calls[p][1].out # "ok" \/ ~Found(p) \/ Rejected(p, 2) \/ Rejected(p, 3))
            /\ ret[p] # RetNull => ret[p].kind = "property" /\ Degrades(p)

\* a Property returned for a listing whose stored media rows do not start
\* with the primary one, after the profile fetch reported an error
C13_Witness ==
    \E p \in Procs :
        /\ Resolved(p, "getListingById") /\ ret[p].kind = "property"
        /\ calls[p][2].out = "ok" /\ calls[p][3].out = "error"
        /\ Len(media[arg[p].id]) = 3 /\ ~media[arg[p].id][1].is_primary
        /\ ret[p].data[1].images[1] = "pub:b"
        /\ ret[p].data[1].agent.name = "Unknown Agent"

\* the name the static table gives a location id, '' for an id it does not hold
NamedBy(table, id, name) ==
    IF \E e \in table : e.id = id
    THEN \E e \in table : e.id = id /\ name = e.name
    ELSE name = ""

\* C14: the transform returns a Property for every listing row, media list
\* and profile: its images are the media urls in order, or the single
\* placeholder when there is no media; an unmatched or null location id gives
\* the name ''; a missing profile gives the agent name 'Unknown Agent' and the
\* agent id of the listing's user_id.
C14_TransformTotal ==
    \A p \in Procs :
        (/\ Resolved(p, "getListingById") /\ calls[p][1].out = "ok" /\ Found(p)
         /\ ~Rejected(p, 2) /\ ~Rejected(p, 3)) =>
            /\ ret[p].kind = "property"
            /\ LET t == ret[p].data[1]
                   listing == arg[p].q.listing
                   rows == arg[p].q.media
                   profile == IF calls[p][3].out = "ok"
                              THEN {r \in profiles : r.id = listing.user_id} ELSE {}
               IN /\ Len(t.images) = IF rows = <<>> THEN 1 ELSE Len(rows)
                  /\ rows = <<>> => t.images[1] = Placeholder
                  /\ \A i \in 1..Len(rows) : t.images[i] = rows[i].media_url
                  /\ NamedBy(provinces, listing.province_id, t.location.province)
                  /\ NamedBy(cities, listing.city_id, t.location.city)
                  /\ NamedBy(districts, listing.district_id, t.location.district)
                  /\ profile = {} =>
                        t.agent = [id |-> listing.user_id, name |-> "Unknown Agent"]
                  /\ t.id = arg[p].id /\ t.price = listing.price /\ t.status = listing.status

\* the Property of a listing without media whose province id is in no table,
\* whose district id is null and whose owner has no profile
C14_Witness ==
    \E p \in Procs :
        /\ Resolved(p, "getListingById") /\ ret[p].kind = "property"
        /\ calls[p][2].out = "ok" /\ calls[p][3].out = "ok"
        /\ media[arg[p].id] = <<>>
        /\ arg[p].q.listing.province_id = "zz" /\ arg[p].q.listing.district_id = Null
        /\ profiles # {} /\ \A r \in profiles : r.id # arg[p].q.listing.user_id
        /\ ret[p].data[1].images = <<Placeholder>>
        /\ ret[p].data[1].location = [province |-> "", city |-> "Jakarta Selatan", district |-> ""]
        /\ ret[p].data[1].agent.name = "Unknown Agent"

----------------------------------------------------------------------------
(* Properties of getUserListings (SpecApi) *)

\* the premium_listings records of a listing that are active and end later
\* than the time of the check
ActivePremium(id) ==
    {r \in premium : r.property_id = id /\ r.status = "active" /\ r.end_date > now}

\* C15: a summary returned by getUserListings has isPremium true if and only
\* if the listing has at least one active premium_listings record whose
\* end_date is later than the time of the check, also when it has several.
C15_PremiumIffActiveRecord ==
    \A p \in Procs :
        (Resolved(p, "getUserListings") /\ Answered(p)) =>
            \A i \in 1..Len(ret[p].data) :
                ret[p].data[i].isPremium = (ActivePremium(ret[p].data[i].id) # {})

----------------------------------------------------------------------------
(* Properties of the counters (SpecCount) *)

CounterOf(method) == IF method = "incrementViewCount" THEN "views" ELSE "inquiries"

\* the calls of a method that succeeded and have not been taken by their
\* callers yet
Succeeded(method) == {p \in Procs : Resolved(p, method) /\ calls[p][1].out = "ok"}

\* C16: a call of incrementViewCount or incrementInquiryCount is one rpc; when
\* it succeeds its counter of the listing grows by exactly one and nothing
\* else of the store changes, so k concurrent successful calls add k; a
\* failing call is swallowed, returns normally and changes nothing.
C16_AtomicIncrement ==
    [][\A p \in Procs :
          (pc[p] = "idle" /\ op'[p] \in {"incrementViewCount", "incrementInquiryCount"}) =>
              LET id == arg'[p].id
                  field == CounterOf(op'[p])
              IN /\ Len(calls'[p]) = 1 /\ IsRequest(calls'[p][1], "rpc", field)
                 /\ pc'[p] = "resolved" /\ ret'[p] = RetVoid
                 /\ media' = media
                 /\ calls'[p][1].out = "ok" =>
                       /\ listings'[id][field] = listings[id][field] + 1
                       /\ listings' = [listings EXCEPT ![id][field] = listings'[id][field]]
                       /\ listings'[id][field] >= Cardinality(Succeeded(op'[p]) \cup {p})
                 /\ calls'[p][1].out # "ok" => listings' = listings]_vars

\* both callers' incrementViewCount calls succeeded before either caller took
\* its result, and the views counter of the listing, 0 at first, is 2
C16_Witness ==
    /\ Succeeded("incrementViewCount") = Procs
    /\ listings[1].views = 2
    /\ listings[1].inquiries = 0

----------------------------------------------------------------------------
(* Properties of the timestamps (SpecClock) *)

\* C17: every successful write of a listing row by createListing,
\* updateListing or updateListingStatus leaves the row's updated_at at the
\* time of that write.
C17_WriteStampsUpdatedAt ==
    [][\A p \in Procs :
          (/\ pc[p] = "idle"
           /\ op'[p] \in {"createListing", "updateListing", "updateListingStatus"}
           /\ calls'[p][1].out = "ok"
           /\ arg'[p].id \in DOMAIN listings')
          => listings'[arg'[p].id].updated_at = now]_vars

----------------------------------------------------------------------------
(* Properties of the analytics snapshot (SpecAnalytics, SpecMetrics) *)

Snapshot(p) == ret[p].data[1]

Snapshots(p) == Resolved(p, "getAnalyticsData") /\ ret[p].kind = "snapshot"

\* the values a sub-metric can have when all its requests are answered
Computed(metric, dateRange) ==
    {r.value : r \in SubMetric(metric, dateRange, [i \in 1..MaxRequests(metric) |-> "ok"])}

\* C18: getAnalyticsData never raises and falls back in two tiers: a sub-metric
\* one of whose requests failed has its empty/zero default in the snapshot, the
\* other sub-metrics have the values computed from the backend in the same
\* snapshot, and the static dataset is returned exactly when the top level of
\* the computation itself throws.
C18_TwoTierFallback ==
    \A p \in Procs :
        Resolved(p, "getAnalyticsData") =>
            LET q == arg[p].q
            IN /\ ret[p].kind \in {"snapshot", "static"}
               /\ ret[p].kind = "static" <=> q.topLevel = "throw"
               /\ ret[p].kind = "snapshot" =>
                     \A i \in DOMAIN Metrics :
                         IF Metrics[i] \in q.failed
                         THEN Snapshot(p)[Metrics[i]] = MetricDefault(Metrics[i])
                         ELSE Snapshot(p)[Metrics[i]] \in Computed(Metrics[i], q.dateRange)

\* rate, in tenths, is inquiries / views * 100 rounded to one decimal, and 0
\* when there are no views
RoundedRate(rate, inquiries, views) ==
    IF views = 0 THEN rate = 0
    ELSE 2 * Abs(rate * views - 1000 * inquiries) <= views

\* C19: the conversion rate of the analytics overview and of each agent is
\* inquiries / views * 100 rounded to one decimal when views > 0 and is 0 when
\* views = 0: 1000 views with 57 inquiries give 5.7.
C19_ConversionRate ==
    \A p \in Procs :
        Snapshots(p) =>
            LET overview == Snapshot(p).overview
                agents == Snapshot(p).agentPerformance
            IN /\ RoundedRate(overview.conversionRate, overview.totalInquiries,
                              overview.totalViews)
               /\ (overview.totalViews = 1000 /\ overview.totalInquiries = 57)
                     => overview.conversionRate = 57
               /\ \A i \in DOMAIN agents :
                     RoundedRate(agents[i].conversionRate, agents[i].totalInquiries,
                                 agents[i].totalViews)

\* a snapshot over 1000 views and 57 inquiries, with an agent without views
C19_Witness ==
    \E p \in Procs :
        /\ Snapshots(p)
        /\ Snapshot(p).overview.totalViews = 1000
        /\ Snapshot(p).overview.totalInquiries = 57
        /\ Snapshot(p).overview.conversionRate = 57
        /\ \E i \in DOMAIN Snapshot(p).agentPerformance :
              /\ Snapshot(p).agentPerformance[i].totalViews = 0
              /\ Snapshot(p).agentPerformance[i].conversionRate = 0

\* the bounds of the six price bands in millions: the lowest price of each
\* band, and the price the last band stops short of
BandFrom == <<0, 500, 1000, 2000, 5000, 10000>>

\* C20: the price analysis puts each listing, by its price on the billion scale
\* (the price itself in miliar, a thousandth of it in juta), in exactly one of
\* the six bands, lower bound inclusive and upper bound exclusive: 500 juta is
\* in '500 Juta - 1 Miliar', 499 juta in '< 500 Juta', and the six counts sum
\* to the number of listings read.
C20_PriceBands ==
    \A p \in Procs :
        Snapshots(p) =>
            LET ranges == Snapshot(p).priceAnalysis.priceRanges
                scaled(id) == InJuta(listings[id].price, listings[id].price_unit)
                within(id, b) == /\ BandFrom[b] <= scaled(id)
                                 /\ b < Len(BandFrom) => scaled(id) < BandFrom[b + 1]
            IN /\ DOMAIN ranges = 1..Len(BandFrom)
               /\ \A b \in DOMAIN ranges :
                     /\ ranges[b].range = priceRangeCounts[b]
                     /\ ranges[b].count =
                            Cardinality({id \in DOMAIN listings : within(id, b)})
               /\ Sum([b \in DOMAIN ranges |-> ranges[b].count], DOMAIN ranges)
                     = Cardinality(DOMAIN listings)

\* a snapshot of a store with a listing of 500 juta, one of 499 juta and one
\* priced in miliar
C20_Witness ==
    \E p \in Procs :
        /\ Snapshots(p)
        /\ \E i, j, k \in DOMAIN listings :
              /\ listings[i].price = 500 /\ listings[i].price_unit = "juta"
              /\ listings[j].price = 499 /\ listings[j].price_unit = "juta"
              /\ listings[k].price_unit = "miliar"
        /\ Snapshot(p).priceAnalysis.priceRanges[1].count = 1
        /\ Snapshot(p).priceAnalysis.priceRanges[2].count = 1
        /\ Snapshot(p).priceAnalysis.priceRanges[3].count = 1

\* C21: the user-registration series has one entry per calendar day from the
\* window start to the window end inclusive, and each entry's cumulative value
\* is the number of registrations strictly before the window start plus the
\* daily counts of the entries up to and including it, so that cumulative
\* never decreases along the series.
C21_RegistrationSeries ==
    \A p \in Procs :
        (Snapshots(p) /\ Snapshot(p).userRegistrations # <<>>) =>
            LET series == Snapshot(p).userRegistrations
                startDate == subDays(now, arg[p].q.dateRange)
                before == Cardinality({u \in profiles : u.created_at < startDate})
            IN /\ Len(series) = now - startDate + 1
               /\ \A i \in DOMAIN series :
                     /\ series[i].date = startDate + i - 1
                     /\ series[i].cumulative =
                            before + Sum([j \in 1..i |-> series[j].count], 1..i)
                     /\ i > 1 => series[i - 1].cumulative <= series[i].cumulative

\* C22: agentPerformance lists the top agents by view count: it is ordered by
\* total views descending, and when more than AgentLimit agents have listings
\* no agent left out of it has more views in total than an agent in it.
C22_TopAgentsByViews ==
    \A p \in Procs :
        Snapshots(p) =>
            LET result == Snapshot(p).agentPerformance
                owned(id) == {i \in DOMAIN listings : listings[i].user_id = id}
                having == {u.id : u \in {u \in profiles : u.role = "agent" /\ owned(u.id) # {}}}
                listed == {result[i].agentId : i \in DOMAIN result}
            IN /\ \A i, j \in DOMAIN result :
                     i < j => result[i].totalViews >= result[j].totalViews
               /\ Cardinality(having) > AgentLimit =>
                     \A out \in having \ listed, in \in listed :
                         TotalOf(owned(out), "views") <= TotalOf(owned(in), "views")

----------------------------------------------------------------------------
(* Properties of the results of the write methods (Spec) and of the listings
   without media (SpecApi) *)

\* C23: createListing returns the new listing's id whenever its listing insert
\* succeeded, and updateListing returns true whenever its listing update
\* succeeded, whatever became of the media steps that follow.
C23_SuccessDespiteMediaFailure ==
    \A p \in Procs :
        /\ (Resolved(p, "createListing") /\ calls[p][1].out = "ok")
              => ret[p] = RetId(arg[p].id)
        /\ (Resolved(p, "updateListing") /\ calls[p][1].out = "ok")
              => ret[p] = RetTrue

\* C24: getAllListings joins property_media with an inner join: for any filters
\* and any page its items are listings that have at least one media row and
\* its count is the number of such listings that pass the filters, so a
\* listing without media rows is never among them, while an answered
\* getUserListings of its owner and an answered getListingById of it still
\* return it.
C24_InnerJoinHidesListingsWithoutMedia ==
    \A p \in Procs :
        /\ Resolved(p, "getAllListings") =>
              /\ \A i \in DOMAIN ret[p].data :
                    /\ ret[p].data[i].id \in DOMAIN listings
                    /\ media[ret[p].data[i].id] # <<>>
              /\ ret[p].count <= Cardinality({id \in DOMAIN listings : media[id] # <<>>})
              /\ Answered(p) =>
                    ret[p].count =
                        Cardinality({id \in DOMAIN listings :
                                        /\ media[id] # <<>>
                                        /\ Satisfies(listings[id], arg[p].q.filters)})
        /\ (Resolved(p, "getUserListings") /\ Answered(p)) =>
              \A id \in DOMAIN listings :
                  listings[id].user_id = arg[p].q.userId
                  => \E i \in DOMAIN ret[p].data : ret[p].data[i].id = id
        /\ (Resolved(p, "getListingById") /\ Answered(p) /\ arg[p].id \in DOMAIN listings) =>
              /\ ret[p].kind = "property"
              /\ ret[p].data[1].id = arg[p].id

\* an answered, unfiltered first page that is empty while a listing without
\* media rows is stored
C24_Witness ==
    \E p \in Procs :
        /\ Resolved(p, "getAllListings") /\ Answered(p)
        /\ arg[p].q.filters = NoFilters /\ arg[p].q.page = 1
        /\ \E id \in DOMAIN listings : media[id] = <<>>
        /\ ret[p].count = 0 /\ ret[p].data = <<>>

====
